---- MODULE Spec2Model ----
(***************************************************************************)
(* durable-apis: the RPC layer between a Worker and its Durable Objects.   *)
(*                                                                         *)
(* Client side: the extended namespace get (identity resolution), the      *)
(* stub proxy, stubFetch with its retry loop, createRequest and            *)
(* transformResponse.  Server side: the dispatcher createDurable builds    *)
(* (router + fetch), createResponse.                                       *)
(*                                                                         *)
(* JavaScript strings are sequences of lexemes (TLA+ strings); a JSON text *)
(* is a sequence of such lexemes, so that JSON.stringify and JSON.parse    *)
(* are conversions that a round trip can get wrong.                        *)
(***************************************************************************)
EXTENDS Integers, Sequences, FiniteSets, TLC

\* ------------------------------------------------------------------------
\* Program constants
\* ------------------------------------------------------------------------

\* const URL = 'https://durable/'
URL == "https://durable/"

\* const maxRetries = 10
maxRetries == 10

\* id.length === 64 in getDurableGet
CanonicalIdLength == 64

\* the base of the backoff: Math.pow(2, retries) * 10
BackoffUnit == 10

\* new RegExp([...].join('|')): the alternatives of retryOn
retryOn ==
  { "Network connection lost",
    "Cannot resolve Durable Object due to transient issue on remote node",
    "Durable Object reset because its code was updated",
    "The Durable Object's code has been updated" }

\* ------------------------------------------------------------------------
\* Bounds of the model
\* ------------------------------------------------------------------------

\* logical stub calls made in one run, one after another or overlapping
NumCalls == 2

\* sends a single call may issue before the model stops following it
\* (above maxRetries + 2, the number the code reaches)
SendCap == 13

\* ------------------------------------------------------------------------
\* JSON values, JSON.stringify and JSON.parse
\* ------------------------------------------------------------------------

JV(t, n, s, keys, items) == [t |-> t, n |-> n, s |-> s, keys |-> keys, items |-> items]
JNull == JV("null", 0, <<>>, <<>>, <<>>)
JBool(b) == JV("bool", IF b THEN 1 ELSE 0, <<>>, <<>>, <<>>)
JNum(k) == JV("num", k, <<>>, <<>>, <<>>)
JStr(toks) == JV("str", 0, toks, <<>>, <<>>)
JArr(items) == JV("arr", 0, <<>>, <<>>, items)
JObj(keys, items) == JV("obj", 0, <<>>, keys, items)
\* a value JSON cannot carry (undefined); JSON.stringify gives undefined for it
JUndefined == JV("undefined", 0, <<>>, <<>>, <<>>)

\* the numbers the model uses (small ones and HTTP statuses), and their
\* decimal lexemes
NumRange == (0..30) \cup {200, 404, 418, 500}
NumLexemes == { ToString(k) : k \in NumRange }
NumOfLexeme(tok) == CHOOSE k \in NumRange : ToString(k) = tok

QUOTE == "\""

RECURSIVE StringifyItems(_, _), StringifyMembers(_, _, _)
\* JSON.stringify(v), v a JSON value without quote lexemes inside its strings
Stringify(v) ==
  CASE v.t = "null" -> <<"null">>
    [] v.t = "bool" -> IF v.n = 1 THEN <<"true">> ELSE <<"false">>
    [] v.t = "num"  -> <<ToString(v.n)>>
    [] v.t = "str"  -> <<QUOTE>> \o v.s \o <<QUOTE>>
    [] v.t = "arr"  -> <<"[">> \o StringifyItems(v.items, 1) \o <<"]">>
    [] v.t = "obj"  -> <<"{">> \o StringifyMembers(v.keys, v.items, 1) \o <<"}">>

StringifyItems(items, i) ==
  IF i > Len(items) THEN <<>>
  ELSE (IF i > 1 THEN <<",">> ELSE <<>>)
       \o Stringify(items[i]) \o StringifyItems(items, i + 1)

StringifyMembers(keys, items, i) ==
  IF i > Len(items) THEN <<>>
  ELSE (IF i > 1 THEN <<",">> ELSE <<>>)
       \o <<QUOTE>> \o keys[i] \o <<QUOTE, ":">>
       \o Stringify(items[i]) \o StringifyMembers(keys, items, i + 1)

\* a parse result: ok, the value, the index after it
PR(ok, val, nxt) == [ok |-> ok, val |-> val, nxt |-> nxt]
ParseFail == PR(FALSE, JNull, 0)

\* index of the first QUOTE at or after i, 0 when there is none
RECURSIVE ClosingQuote(_, _)
ClosingQuote(toks, i) ==
  IF i > Len(toks) THEN 0
  ELSE IF toks[i] = QUOTE THEN i ELSE ClosingQuote(toks, i + 1)

\* the string literal between the QUOTE at i and the QUOTE at j (0: none)
StringBetween(toks, i, j) ==
  IF j = 0 THEN ParseFail
  ELSE PR(TRUE, JStr(SubSeq(toks, i + 1, j - 1)), j + 1)

\* a string literal starting at the QUOTE at i
ParseStringAt(toks, i) == StringBetween(toks, i, ClosingQuote(toks, i + 1))

RECURSIVE ParseValueAt(_, _), ParseItemsAt(_, _, _), ParseMembersAt(_, _, _, _)
RECURSIVE ItemsAfter(_, _, _), MemberValue(_, _, _, _), MembersAfter(_, _, _, _, _)
ParseValueAt(toks, i) ==
  IF i > Len(toks) THEN ParseFail
  ELSE
    CASE toks[i] = "null"  -> PR(TRUE, JNull, i + 1)
      [] toks[i] = "true"  -> PR(TRUE, JBool(TRUE), i + 1)
      [] toks[i] = "false" -> PR(TRUE, JBool(FALSE), i + 1)
      [] toks[i] \in NumLexemes -> PR(TRUE, JNum(NumOfLexeme(toks[i])), i + 1)
      [] toks[i] = QUOTE -> ParseStringAt(toks, i)
      [] toks[i] = "[" ->
           IF i + 1 <= Len(toks) /\ toks[i + 1] = "]"
           THEN PR(TRUE, JArr(<<>>), i + 2)
           ELSE ParseItemsAt(toks, i + 1, <<>>)
      [] toks[i] = "{" ->
           IF i + 1 <= Len(toks) /\ toks[i + 1] = "}"
           THEN PR(TRUE, JObj(<<>>, <<>>), i + 2)
           ELSE ParseMembersAt(toks, i + 1, <<>>, <<>>)
      [] OTHER -> ParseFail

\* the elements of an array, the first of them at i
ParseItemsAt(toks, i, acc) == ItemsAfter(toks, ParseValueAt(toks, i), acc)

\* after the element r: the array's end, or a comma and the next element
ItemsAfter(toks, r, acc) ==
  IF ~r.ok \/ r.nxt > Len(toks) THEN ParseFail
  ELSE IF toks[r.nxt] = "]" THEN PR(TRUE, JArr(Append(acc, r.val)), r.nxt + 1)
  ELSE IF toks[r.nxt] = "," THEN ParseItemsAt(toks, r.nxt + 1, Append(acc, r.val))
  ELSE ParseFail

\* the members of an object, the first key's QUOTE at i
ParseMembersAt(toks, i, keys, acc) ==
  IF i > Len(toks) \/ toks[i] # QUOTE THEN ParseFail
  ELSE MemberValue(toks, ParseStringAt(toks, i), keys, acc)

\* after the key k: a colon and the member's value
MemberValue(toks, k, keys, acc) ==
  IF ~k.ok \/ k.nxt > Len(toks) \/ toks[k.nxt] # ":" THEN ParseFail
  ELSE MembersAfter(toks, k, ParseValueAt(toks, k.nxt + 1), keys, acc)

\* after the member k: r, the object's end, or a comma and the next member
MembersAfter(toks, k, r, keys, acc) ==
  IF ~r.ok \/ r.nxt > Len(toks) THEN ParseFail
  ELSE IF toks[r.nxt] = "}"
    THEN PR(TRUE, JObj(Append(keys, k.val.s), Append(acc, r.val)), r.nxt + 1)
  ELSE IF toks[r.nxt] = ","
    THEN ParseMembersAt(toks, r.nxt + 1, Append(keys, k.val.s), Append(acc, r.val))
  ELSE ParseFail

\* the whole text must be one value
WholeText(text, r) == IF r.ok /\ r.nxt = Len(text) + 1 THEN r ELSE ParseFail

\* JSON.parse(text): ok is FALSE where JSON.parse throws a SyntaxError
JsonParse(text) == WholeText(text, ParseValueAt(text, 1))


\* ------------------------------------------------------------------------
\* JavaScript values that cross the layer: errors, responses, requests
\* ------------------------------------------------------------------------

\* an Error object: its name, its message (a string), its status (0: none)
Err(name, message, status) == [name |-> name, message |-> message, status |-> status]
NoErr == Err("", <<>>, 0)

\* err + '': Error.prototype.toString gives "name: message"
ErrToString(err) ==
  IF err.message = <<>> THEN <<err.name>> ELSE <<err.name, ": ">> \o err.message

\* a Response: status, headers (name/value pairs), body text, whether the
\* body can still be read (response.text() rejects on a used or broken body),
\* and whether its headers are immutable (headers.set throws a TypeError on
\* them)
Resp(status, headers, body, readable) ==
  [status |-> status, headers |-> headers, body |-> body, readable |-> readable,
   immutable |-> FALSE]

\* a Response the runtime made itself (the result of fetch(), of
\* Response.redirect()): its headers are immutable
RuntimeResp(status, headers, body) ==
  [status |-> status, headers |-> headers, body |-> body, readable |-> TRUE,
   immutable |-> TRUE]
NoResp == Resp(0, {}, <<>>, FALSE)

DirectHeader == <<"X-Direct-Response", "true">>
JsonContentType == <<"Content-Type", "application/json; charset=utf-8">>

\* what a method returns: a JSON value, undefined, or a Response
RetValue(v) == [isResponse |-> FALSE, val |-> v, resp |-> NoResp]
RetResponse(r) == [isResponse |-> TRUE, val |-> JNull, resp |-> r]

\* a Request
Req(url, method, headers, body) ==
  [url |-> url, method |-> method, headers |-> headers, body |-> body]

NoReq == Req(<<>>, "", {}, <<>>)

\* a member name as it reads inside a URL: the empty name adds nothing, a
\* name with a slash in it reads as path segments
NameLexemes(prop) ==
  CASE prop = "" -> <<>>
    [] prop = "a/b" -> <<"a", "/", "b">>
    [] OTHER -> <<prop>>

\* createRequest that builds a GET with no body
createRequest_Get(prop, content) == Req(<<URL>> \o NameLexemes(prop), "GET", {}, <<>>)

\* createRequest(prop, content): POST https://durable/<prop>, JSON body
createRequest(prop, content) ==
  Req(<<URL>> \o NameLexemes(prop), "POST",
      {<<"Content-Type", "application/json">>},
      Stringify(JArr(content)))

\* ------------------------------------------------------------------------
\* The runtime the layer runs on
\* ------------------------------------------------------------------------

VARIABLES
  runtime,    \* facts of the JavaScript runtime, fixed for a run
  actor,      \* the Durable Object's own state (the counter of the README)
  calls,      \* the logical stub calls, one record per caller
  started,    \* logical calls started so far
  incDone,    \* increment() calls that have resolved so far
  mode,       \* "sequential": each call awaited before the next is made;
              \* "concurrent": the callers' calls overlap
  lost,       \* sends the transport rejected after the actor had run them
  lostInc,    \* those of them that were increment() runs
  lookups,    \* the namespace.get lookups made so far, each with the native
              \* operations it invoked
  uniq,       \* ids namespace.newUniqueId has generated so far
  target,     \* the Durable Object the stubs reach: how it was written
              \* (createDurable function or DurableAPI class) and whether it
              \* defines a request handler of its own (api.fetch, handleFetch)
  methods,    \* the own keys of the methods object of the stub proxy
  namespace,  \* the DurableObjectNamespace: which implementation each of
              \* its operations has, and how often get has been wrapped
  extendedBy  \* the entry points of the module that have run extendEnv(env)

callVars == <<runtime, actor, calls, started, incDone, mode, lost, lostInc>>
lookupVars == <<lookups, uniq>>
restVars == <<lookupVars, target, methods, namespace, extendedBy>>
vars == <<callVars, restVars>>

\* ------------------------------------------------------------------------
\* Server side: the target object and the dispatcher of createDurable
\* ------------------------------------------------------------------------

\* the members of the api object the durable init function returns
ApiMethods == {"add", "increment", "echoAny", "raw", "fail"}
\* members that are not functions
ApiProperties == {"version"}

\* typeof api[prop] === 'function' (typeof this[prop] in the class, whose
\* fetch is always a method)
IsFunction(prop) ==
  \/ prop \in ApiMethods
  \/ prop = "fetch" /\ (target.style = "class" \/ target.fallback)

\* the errors the method fail() throws, at once or from its promise
TargetErrors ==
  { Err("Error", <<"boom">>, 0),
    Err("StatusError", <<"teapot">>, 418),
    Err("Error", <<"Network connection lost", ".">>, 0),
    Err("StatusError", <<"custom">>, 1000) }

\* the response of the object's own request handler, where it defines one
FallbackResponse == Resp(200, {<<"X-Handled-By", "fetch">>}, <<"fallback">>, TRUE)

CannotHandleMessage == <<"Durable Object cannot handle request">>

\* the response of DurableAPI's default handleFetch
DefaultHandleFetch ==
  Resp(500, {<<"Content-Type", "application/json">>},
       <<"{", QUOTE, "status", QUOTE, ":", "500", ",", QUOTE, "error", QUOTE, ":",
         QUOTE, "Durable Object cannot handle request", QUOTE, "}">>, TRUE)

\* Responses the method raw() may return
RawResponses ==
  { Resp(200, {<<"Content-Type", "text/plain">>}, <<"7">>, TRUE),
    Resp(404, {<<"X-Reason", "gone">>}, <<"not found">>, TRUE),
    RuntimeResp(200, {<<"Content-Type", "text/html">>}, <<"upstream">>) }

\* the response of itty-router-extras' json(data): objects (null, arrays and
\* plain objects: typeof data === 'object') are JSON.stringify-ed, any other
\* value becomes the body as it is (new Response(data))
RawBody(v) ==
  CASE v.t = "num"  -> <<ToString(v.n)>>
    [] v.t = "bool" -> IF v.n = 1 THEN <<"true">> ELSE <<"false">>
    [] v.t = "str"  -> v.s
    [] OTHER -> <<>>

json(data, status) ==
  IF data.t \in {"null", "arr", "obj"}
  THEN Resp(status, {JsonContentType}, Stringify(data), TRUE)
  ELSE Resp(status, {}, RawBody(data), TRUE)

\* createResponse(data): json(data), or new Response(data) when json throws
\* (JSON.stringify throws on none of the values of the model)
createResponse(data) == json(data, 200)

\* error(status, message) of itty-router-extras: json({status, error}, {status})
error(status, message) ==
  json(JObj(<< <<"status">>, <<"error">> >>, <<JNum(status), JStr(message)>>), status)

MissingMethodMessage(prop) ==
  <<"Durable Object does not contain method ", prop, "()">>

\* the outcome of running a handler: a thrown error or a return value, the
\* arguments or the request the method received, whether a method of the
\* object ran, and the actor's state after it
Thrown(err, st) ==
  [threw |-> TRUE, err |-> err, ret |-> RetValue(JUndefined), args |-> <<>>,
   req |-> NoReq, ran |-> FALSE, st |-> st]
MethodThrew(err, args, st) ==
  [threw |-> TRUE, err |-> err, ret |-> RetValue(JUndefined), args |-> args,
   req |-> NoReq, ran |-> TRUE, st |-> st]
Returned(ret, args, st) ==
  [threw |-> FALSE, err |-> NoErr, ret |-> ret, args |-> args,
   req |-> NoReq, ran |-> TRUE, st |-> st]
FetchReturned(ret, request, st) ==
  [threw |-> FALSE, err |-> NoErr, ret |-> ret, args |-> <<>>,
   req |-> request, ran |-> TRUE, st |-> st]

\* api[prop](...content); pick resolves what the method itself leaves open
CallMethod(prop, content, st, pick) ==
  CASE prop = "add" ->
         Returned(RetValue(JNum(content[1].n + content[2].n)), content, st)
    [] prop = "increment" ->
         Returned(RetValue(JNum(st.counter + 1)), content, [st EXCEPT !.counter = @ + 1])
    [] prop = "echoAny" ->
         Returned(RetValue(content[pick.index]), content, st)
    [] prop = "raw" ->
         Returned(RetResponse(pick.response), content, st)
    [] prop = "fail" ->
         MethodThrew(pick.error, content, st)

\* the object's own request handler: api.fetch of a createDurable object that
\* defines it, handleFetch of a DurableAPI (the default when not overridden)
HandleFetch ==
  IF target.fallback THEN FallbackResponse ELSE DefaultHandleFetch

\* api[prop](request) for prop 'fetch' (this.handleFetch(request) in the class)
CallFetch(request, st) == FetchReturned(RetResponse(HandleFetch), request, st)

\* withContent: request.content = await request.json() when the content type
\* says JSON; undefined when that fails
ParsedOrUndefined(r) == IF r.ok THEN r.val ELSE JUndefined

withContent(req) ==
  IF \E h \in req.headers : h[1] = "Content-Type" /\ h[2] = "application/json"
  THEN ParsedOrUndefined(JsonParse(req.body))
  ELSE JUndefined

\* Handle without the typeof check: calling the missing member throws a
\* TypeError of the runtime's own
Handle_NoFunctionCheck(request, content, st, pick) ==
  IF ~IsFunction(request.url[2])
  THEN Thrown(Err("TypeError", <<"api[prop] is not a function">>, 0), st)
  ELSE IF request.url[2] = "fetch"
  THEN CallFetch(request, st)
  ELSE IF content.t # "arr"
  THEN Thrown(Err("TypeError", <<"content is not iterable">>, 0), st)
  ELSE CallMethod(request.url[2], content.items, st, pick)

\* Handle that spreads the decoded arguments for every method name
Handle_AlwaysSpreads(request, content, st, pick) ==
  IF ~IsFunction(request.url[2])
  THEN Thrown(Err("Error", MissingMethodMessage(request.url[2]), 500), st)
  ELSE IF content.t # "arr"
  THEN Thrown(Err("TypeError", <<"content is not iterable">>, 0), st)
  ELSE IF request.url[2] = "fetch"
  THEN [CallFetch(request, st) EXCEPT !.req = NoReq, !.args = content.items]
  ELSE CallMethod(request.url[2], content.items, st, pick)

\* the handler's body, with request.params.prop (the path segment of the
\* request) and request.content
Handle(request, content, st, pick) ==
  IF ~IsFunction(request.url[2])
  THEN Thrown(Err("Error", MissingMethodMessage(request.url[2]), 500), st)
  ELSE IF request.url[2] = "fetch"
  THEN CallFetch(request, st)
  ELSE IF content.t # "arr"
  THEN Thrown(Err("TypeError", <<"content is not iterable">>, 0), st)
  ELSE CallMethod(request.url[2], content.items, st, pick)

\* response.headers.set('X-Direct-Response', 'true') on a returned Response:
\* it throws where the headers are immutable (EncodeReturn adds the header
\* where it does not)
SetMarker(h) ==
  IF ~h.threw /\ h.ret.isResponse /\ h.ret.resp.immutable
  THEN [h EXCEPT !.threw = TRUE,
                 !.err = Err("TypeError", <<"Can't modify immutable headers.">>, 0)]
  ELSE h

\* the handler of router.post('/:prop', withContent, ...)
RouteHandler(req, st, pick) == SetMarker(Handle(req, withContent(req), st, pick))

\* the response the handler's return value becomes
EncodeReturn(ret) ==
  IF ret.isResponse
  THEN [ret.resp EXCEPT !.headers = @ \cup {DirectHeader}]
  ELSE createResponse(ret.val)

\* err.status || 500
ErrorStatus(err) == IF err.status # 0 THEN err.status ELSE 500

\* new Response(body, {status}) throws a RangeError for a status outside
\* 200..599
ValidStatus(status) == status \in 200..599
RangeErr ==
  Err("RangeError",
      <<"Responses may only be constructed with status codes in the range 200 to 599, inclusive.">>,
      0)

\* what the object's fetch gives the transport: a response, or a rejection
\* with err; with it what the object did (routed: the RPC router handled it)
Served(resp, h, routed) ==
  [resp |-> resp, rejected |-> FALSE, err |-> NoErr, routed |-> routed,
   thrown |-> h.err, ret |-> h.ret, args |-> h.args, req |-> h.req, ran |-> h.ran, st |-> h.st]
Escaped(err, h) ==
  [resp |-> NoResp, rejected |-> TRUE, err |-> err, routed |-> TRUE,
   thrown |-> h.err, ret |-> h.ret, args |-> h.args, req |-> h.req, ran |-> h.ran, st |-> h.st]

\* fetch of the object createDurable returns, for a request to https://durable/:
\* router.handle(request).catch(err => error(err.status || 500, err.message))
CatchAndEncode(h) ==
  IF h.threw
  THEN IF ValidStatus(ErrorStatus(h.err))
       THEN Served(error(ErrorStatus(h.err), h.err.message), h, TRUE)
       ELSE Escaped(RangeErr, h)
  ELSE Served(EncodeReturn(h.ret), h, TRUE)

\* the route of Router().post('/:prop', ...): the method is POST and the
\* path is one segment that is not empty
RouteMatches(request) ==
  /\ request.method = "POST"
  /\ Len(request.url) = 2
  /\ request.url[2] # "/"

\* the Workers runtime's error for a fetch handler whose promise fulfils with
\* something that is no Response
NotAResponseErr ==
  Err("TypeError",
      <<"Incorrect type for Promise: the Promise did not resolve to 'Response'.">>, 0)

\* router.handle(request) when no route matches: it fulfils with undefined,
\* nothing is thrown for the catch to take, and fetch returns that promise
Unmatched(st) == Escaped(NotAResponseErr, Thrown(NoErr, st))

DurableFetch(req, st, pick) ==
  IF RouteMatches(req) THEN CatchAndEncode(RouteHandler(req, st, pick))
  ELSE Unmatched(st)

\* request.url.startsWith(URL): the url's first lexeme is its origin with
\* the slash that ends it
StartsWithURL(url) == Len(url) >= 1 /\ url[1] = URL

\* a request that is no RPC call: api.fetch?.(request) || error(500, ...) of
\* createDurable, this.handleFetch(request) of the class
Forwarded(request, st) ==
  IF target.style = "function" /\ ~target.fallback
  THEN Served(error(500, CannotHandleMessage), Thrown(NoErr, st), FALSE)
  ELSE Served(HandleFetch, FetchReturned(RetResponse(HandleFetch), request, st), FALSE)

\* Fetch that routes every request to the RPC router
Fetch_AlwaysRoutes(request, st, pick) == DurableFetch(request, st, pick)

\* fetch(request) of the Durable Object
Fetch(request, st, pick) ==
  IF StartsWithURL(request.url) THEN DurableFetch(request, st, pick)
  ELSE Forwarded(request, st)

\* ------------------------------------------------------------------------
\* Client side: transformResponse, shouldRetry, stubFetch
\* ------------------------------------------------------------------------

\* what a stub call settles with: a decoded value, a Response, or a rejection
Out(kind, val, resp, err) == [kind |-> kind, val |-> val, resp |-> resp, err |-> err]
Pending == Out("pending", JNull, NoResp, NoErr)
Rejected(err) == Out("rejected", JNull, NoResp, err)

\* { ...response, headers }: the spread copies own enumerable properties only.
\* Where the runtime defines status on the instance it is copied; where it is
\* an accessor of Response.prototype it is not, and new Response defaults to 200.
SpreadStatus(response) == IF runtime.ownProps THEN response.status ELSE 200

\* ParsedOrText that never parses: the body is returned as text
ParsedOrText_TextOnly(r, text) == Out("value", JStr(text), NoResp, NoErr)

\* try { return JSON.parse(text) } catch (err) {} return text
ParsedOrText(r, text) ==
  IF r.ok THEN Out("value", r.val, NoResp, NoErr)
  ELSE Out("value", JStr(text), NoResp, NoErr)

\* transformResponse without the try blocks: a body that is no JSON, or
\* that cannot be read, rejects
transformResponse_NoTry(response) ==
  IF DirectHeader \in response.headers
  THEN Out("response", JNull,
           Resp(SpreadStatus(response), response.headers \ {DirectHeader},
                response.body, response.readable),
           NoErr)
  ELSE IF ~response.readable
  THEN Rejected(Err("TypeError", <<"Body has already been used.">>, 0))
  ELSE IF JsonParse(response.body).ok
  THEN Out("value", JsonParse(response.body).val, NoResp, NoErr)
  ELSE Rejected(Err("SyntaxError", <<"Unexpected token">>, 0))

\* transformResponse(response)
transformResponse(response) ==
  IF DirectHeader \in response.headers
  THEN Out("response", JNull,
           Resp(SpreadStatus(response), response.headers \ {DirectHeader},
                response.body, response.readable),
           NoErr)
  ELSE IF ~response.readable
  THEN Out("response", JNull, response, NoErr)
  ELSE ParsedOrText(JsonParse(response.body), response.body)

\* retryOn.test(s): some alternative occurs in s
RetryOnTest(s) == \E i \in 1..Len(s) : s[i] \in retryOn

\* shouldRetry without the retries > maxRetries test
shouldRetry_NoLimit(err, retries) == RetryOnTest(ErrToString(err))

\* shouldRetry that does not look at the error
shouldRetry_AnyError(err, retries) == ~(retries > maxRetries)

\* shouldRetry that gives up at once
shouldRetry_Never(err, retries) == FALSE

\* shouldRetry(err, retries)
shouldRetry(err, retries) ==
  IF retries > maxRetries THEN FALSE ELSE RetryOnTest(ErrToString(err))

\* the schedule of the comment in stubFetch: 20ms, 40ms, etc
Delay_FromTwenty(retries) == (2 ^ (retries + 1)) * BackoffUnit

\* Math.pow(2, retries) * 10
Delay(retries) == (2 ^ retries) * BackoffUnit

\* the callers of the model, each with at most one logical call at a time
Callers == {"w1", "w2"}

\* sends the transport may reject after the actor has run them, in one run
MaxLost == 2

IdleCall ==
  [ pc |-> "idle", prop |-> "", content |-> <<>>, retries |-> 0, sends |-> 0,
    timer |-> 0, delays |-> <<>>, waited |-> 0, out |-> Pending,
    caught |-> NoErr, got |-> <<>>, ret |-> RetValue(JUndefined), ran |-> 0,
    k |-> 0, lostAt |-> 0,
    sent |-> NoReq,       \* the request of the latest send
    gotReq |-> NoReq,     \* the request a request handler of the object received
    resp |-> NoResp,      \* the response obj.fetch fulfilled with
    responses |-> 0,      \* how many times obj.fetch fulfilled
    routed |-> FALSE,     \* the object's RPC router handled the latest send
    ordinal |-> 0,        \* the call is the ordinal-th call started
    thrown |-> NoErr,     \* the error the router's handler threw on the latest send
    direct |-> FALSE,     \* the call is stub.fetch(request), not an RPC call
    layers |-> 0,         \* the proxies of the stub the call was made on
    wire |-> NoReq,       \* the request the native stub was given
    loops |-> 0 ]         \* the stubFetch runs a send passes through

\* the values the callers pass and the methods echo
TestValues ==
  << JNum(0), JBool(FALSE), JStr(<<>>), JNull, JStr(<<"7">>), JStr(<<"abc">>),
     JArr(<<JNum(1), JStr(<<"x">>), JNull>>),
     JObj(<< <<"a">> >>, << JArr(<<JBool(TRUE), JObj(<<>>, <<>>)>>) >>) >>

\* the stub calls the callers make: member name and argument list
Invocations ==
  { <<"add", <<JNum(3), JNum(4)>> >>,
    <<"increment", <<>> >>,
    <<"echoAny", TestValues>>,
    <<"raw", <<>> >>,
    <<"foo", <<>> >>,
    <<"version", <<>> >> }

\* the errors obj.fetch rejects with
TransportErrors ==
  { Err("Error", <<"Network connection lost", ".">>, 0),
    Err("Error", <<"Durable Object reset because its code was updated", ".">>, 0),
    Err("TypeError", <<"Durable Object storage operation exceeded timeout">>, 0) }

\* what a method run leaves open: which argument echoAny returns, which
\* Response raw returns
Picks(prop, content) ==
  CASE prop = "echoAny" ->
         { [index |-> i, response |-> NoResp, error |-> NoErr] : i \in 1..Len(content) }
    [] prop = "raw" ->
         { [index |-> 0, response |-> r, error |-> NoErr] : r \in RawResponses }
    [] prop = "fail" ->
         { [index |-> 0, response |-> NoResp, error |-> e] : e \in TargetErrors }
    [] OTHER -> { [index |-> 0, response |-> NoResp, error |-> NoErr] }

\* stub.prop(...content): the proxy's callable runs stubFetch(obj, prop, content)
\* with retries = 0, which sends the first request
MayStart(c) ==
  /\ calls[c].pc = "idle"
  /\ started < NumCalls
  /\ mode = "sequential" => \A d \in Callers : calls[d].pc = "idle"

Invoke(c, prop, content) ==
  /\ MayStart(c)
  /\ started' = started + 1
  /\ calls' = [calls EXCEPT ![c] =
       [IdleCall EXCEPT !.pc = "inflight", !.prop = prop, !.content = content,
                        !.sends = 1, !.sent = createRequest(prop, content),
                        !.ordinal = started + 1]]
  /\ UNCHANGED <<runtime, actor, incDone, mode, lost, lostInc>>
  /\ UNCHANGED restVars

\* the names every object inherits from Object.prototype
ObjectPrototypeNames ==
  { "toString", "valueOf", "constructor", "hasOwnProperty", "isPrototypeOf",
    "propertyIsEnumerable", "toLocaleString", "__proto__" }

\* the members of the native DurableObjectStub
NativeStubMembers == {"fetch", "id", "name"}

\* prop in methods, prop in obj: own or inherited
InMethods(prop) == prop \in methods \/ prop \in ObjectPrototypeNames
InStub(prop) == prop \in NativeStubMembers \/ prop \in ObjectPrototypeNames

\* the get trap of the proxy: what stub[prop] is. "fetch": methods.fetch;
\* "remote": a callable that runs stubFetch(obj, prop, args), kept in methods;
\* "inherited": the function methods inherits under that name;
\* "native": the native stub's own member
ProxyGet(prop) ==
  IF InMethods(prop)
  THEN (IF prop = "fetch" THEN "fetch"
        ELSE IF prop \in methods THEN "remote" ELSE "inherited")
  ELSE IF InStub(prop) THEN "native"
  ELSE "remote"

\* stub[prop](...content) where stub[prop] is no callable of the proxy's: the
\* inherited function runs locally; a native member that is no function
\* throws a TypeError; nothing is sent either way
LocalCall(call, prop, content, kind) ==
  [IdleCall EXCEPT !.prop = prop, !.content = content, !.ordinal = started + 1,
     !.pc = IF kind = "inherited" THEN "resolved" ELSE "rejected",
     !.out = IF kind = "inherited" THEN Out("local", JUndefined, NoResp, NoErr)
             ELSE Rejected(Err("TypeError", <<"stub[prop] is not a function">>, 0)),
     !.caught = IF kind = "inherited" THEN NoErr
                ELSE Err("TypeError", <<"stub[prop] is not a function">>, 0)]

RemoteCall(call, prop, content) ==
  [IdleCall EXCEPT !.pc = "inflight", !.prop = prop, !.content = content,
                   !.sends = 1, !.sent = createRequest(prop, content),
                   !.ordinal = started + 1]

\* stub[prop](...content) on the proxy, for any member name but fetch
Call(c, prop, content) ==
  /\ MayStart(c)
  /\ started' = started + 1
  /\ calls' = [calls EXCEPT ![c] =
       IF ProxyGet(prop) = "remote" THEN RemoteCall(@, prop, content)
       ELSE LocalCall(@, prop, content, ProxyGet(prop))]
  /\ methods' = IF ProxyGet(prop) = "remote" THEN methods \cup {prop} ELSE methods
  /\ UNCHANGED <<runtime, actor, incDone, mode, lost, lostInc>>
  /\ UNCHANGED <<lookupVars, target, namespace, extendedBy>>

\* Catch that rejects with a new error wrapping the one caught
Catch_WrapsError(call, err) ==
  IF ~shouldRetry(err, call.retries)
  THEN [call EXCEPT !.pc = "rejected", !.caught = err,
                    !.out = Rejected(Err("Error", <<"call failed: ">> \o ErrToString(err), 0))]
  ELSE [call EXCEPT !.pc = "backoff", !.timer = Delay(call.retries), !.caught = err]

\* the catch handler of stubFetch: reject with err, or set the backoff timer
Catch(call, err) ==
  IF ~shouldRetry(err, call.retries)
  THEN [call EXCEPT !.pc = "rejected", !.out = Rejected(err), !.caught = err]
  ELSE [call EXCEPT !.pc = "backoff", !.timer = Delay(call.retries), !.caught = err]

\* obj.fetch resolves with the dispatcher's response; transformResponse
\* settles the call
IsIncrementRun(c, d) == d.ran /\ calls[c].prop = "increment"

\* what the call record keeps of a send the object handled
Handled(call, d) ==
  [call EXCEPT !.got = d.args, !.gotReq = d.req, !.ret = d.ret, !.routed = d.routed,
               !.thrown = d.thrown,
               !.ran = @ + (IF d.ran THEN 1 ELSE 0)]

\* Resolve that reads the error descriptor and retries a transient one
Resolve_RetriesEnvelope(c, d) ==
  /\ actor' = d.st
  /\ incDone' = incDone
  /\ calls' = [calls EXCEPT ![c] =
       IF \E i \in 1..Len(d.resp.body) : d.resp.body[i] \in retryOn
       THEN Catch([Handled(@, d) EXCEPT !.resp = d.resp, !.responses = @ + 1],
                  Err("Error", d.resp.body, 0))
       ELSE [Handled(@, d) EXCEPT !.pc = "resolved", !.out = transformResponse(d.resp),
                 !.resp = d.resp, !.responses = @ + 1,
                 !.k = incDone', !.lostAt = lostInc]]

\* Resolve against a dispatcher that remembers the call: a send of a call
\* whose method has run already is answered without running it again
Resolve_Deduplicated(c, d) ==
  /\ actor' = IF calls[c].ran > 0 THEN actor ELSE d.st
  /\ incDone' = IF IsIncrementRun(c, d) THEN incDone + 1 ELSE incDone
  /\ calls' = [calls EXCEPT ![c] =
       [Handled(@, d) EXCEPT !.pc = "resolved", !.out = transformResponse(d.resp),
                 !.resp = d.resp, !.responses = @ + 1,
                 !.ran = IF calls[c].ran > 0 THEN calls[c].ran ELSE @,
                 !.k = incDone', !.lostAt = lostInc]]

Resolve(c, d) ==
  /\ actor' = d.st
  /\ incDone' = IF IsIncrementRun(c, d) THEN incDone + 1 ELSE incDone
  /\ calls' = [calls EXCEPT ![c] =
       [Handled(@, d) EXCEPT !.pc = "resolved", !.out = transformResponse(d.resp),
                 !.resp = d.resp, !.responses = @ + 1,
                 !.k = incDone', !.lostAt = lostInc]]

\* the object's fetch rejected: the rejection reaches obj.fetch of the caller
FetchThrew(c, d) ==
  /\ actor' = d.st
  /\ incDone' = incDone
  /\ calls' = [calls EXCEPT ![c] = Catch(Handled(@, d), d.err)]

Answer(c, d) == IF d.rejected THEN FetchThrew(c, d) ELSE Resolve(c, d)

TransportResponds(c, pick) ==
  /\ calls[c].pc = "inflight"
  /\ ~calls[c].direct
  /\ Answer(c, Fetch(calls[c].sent, actor, pick))
  /\ UNCHANGED <<runtime, started, mode, lost, lostInc>>
  /\ UNCHANGED restVars

\* the response as the client has it when its body breaks while it is read
\* (response.text() rejects)
Unreadable(d) == IF d.rejected THEN d ELSE [d EXCEPT !.resp.readable = FALSE]

\* obj.fetch resolves with the dispatcher's response, whose body then cannot
\* be read
TransportRespondsBroken(c, pick) ==
  /\ calls[c].pc = "inflight"
  /\ ~calls[c].direct
  /\ Answer(c, Unreadable(Fetch(calls[c].sent, actor, pick)))
  /\ UNCHANGED <<runtime, started, mode, lost, lostInc>>
  /\ UNCHANGED restVars

\* obj.fetch rejects with err before the request reaches the actor
TransportRejects(c, err) ==
  /\ calls[c].pc = "inflight"
  /\ ~calls[c].direct
  /\ calls' = [calls EXCEPT ![c] = Catch(@, err)]
  /\ UNCHANGED <<runtime, actor, started, incDone, mode, lost, lostInc>>
  /\ UNCHANGED restVars

\* the request reaches the actor, which runs it, and obj.fetch then rejects
\* with err (the connection is lost before the response arrives)
RunThenCatch(c, d, err) ==
  /\ actor' = d.st
  /\ calls' = [calls EXCEPT ![c] =
       Catch([@ EXCEPT !.got = d.args, !.ran = @ + (IF d.ran THEN 1 ELSE 0)], err)]
  /\ lostInc' = IF IsIncrementRun(c, d) THEN lostInc + 1 ELSE lostInc

TransportLoses(c, err, pick) ==
  /\ calls[c].pc = "inflight"
  /\ ~calls[c].direct
  /\ lost < MaxLost
  /\ RunThenCatch(c, Fetch(calls[c].sent, actor, pick), err)
  /\ lost' = lost + 1
  /\ UNCHANGED <<runtime, started, incDone, mode>>
  /\ UNCHANGED restVars

\* BackoffElapsed with one attempt counter for all the calls of the stub
BackoffElapsed_SharedCounter(c) ==
  /\ calls[c].pc = "backoff"
  /\ calls[c].sends < SendCap
  /\ calls' = [d \in Callers |->
       IF d = c
       THEN [calls[d] EXCEPT !.pc = "inflight", !.retries = @ + 1, !.sends = @ + 1,
                 !.sent = createRequest(calls[c].prop, calls[c].content),
                 !.delays = Append(@, calls[c].timer),
                 !.waited = @ + calls[c].timer, !.timer = 0]
       ELSE IF calls[d].pc \in {"inflight", "backoff"}
       THEN [calls[d] EXCEPT !.retries = @ + 1]
       ELSE calls[d]]
  /\ UNCHANGED <<runtime, actor, started, incDone, mode, lost, lostInc>>
  /\ UNCHANGED restVars

\* the setTimeout of the backoff fires: stubFetch(obj, prop, content, retries + 1)
\* sends the request again
BackoffElapsed(c) ==
  /\ calls[c].pc = "backoff"
  /\ calls[c].sends < SendCap
  /\ calls' = [calls EXCEPT ![c] =
       [@ EXCEPT !.pc = "inflight", !.retries = @ + 1, !.sends = @ + 1,
                 !.sent = createRequest(calls[c].prop, calls[c].content),
                 !.delays = Append(@, calls[c].timer),
                 !.waited = @ + calls[c].timer, !.timer = 0]]
  /\ UNCHANGED <<runtime, actor, started, incDone, mode, lost, lostInc>>
  /\ UNCHANGED restVars

\* the caller takes the settled promise's outcome; its next call may follow
Settle(c) ==
  /\ calls[c].pc \in {"resolved", "rejected"}
  /\ calls' = [calls EXCEPT ![c] = IdleCall]
  /\ UNCHANGED <<runtime, actor, started, incDone, mode, lost, lostInc>>
  /\ UNCHANGED restVars

\* ------------------------------------------------------------------------
\* stub.fetch(request) on the proxy: methods.fetch hands it to the native stub
\* ------------------------------------------------------------------------

\* the requests callers pass to stub.fetch: requests to other origins, RPC
\* envelopes built by hand, and requests to https://durable/ whose body is
\* no JSON array
DirectRequests ==
  { Req(<<"https://example.com/", "ws">>, "GET", {<<"Upgrade", "websocket">>}, <<>>),
    Req(<<"http://durable/", "add">>, "POST", {<<"Content-Type", "application/json">>},
        <<"[", "3", ",", "4", "]">>),
    createRequest("add", <<JNum(3), JNum(4)>>),
    createRequest("raw", <<>>),
    createRequest("fetch", <<JNum(1)>>),
    createRequest("fail", <<>>),
    createRequest("foo", <<>>),
    Req(<<URL, "add">>, "POST", {<<"Content-Type", "application/json">>}, <<"not json">>),
    Req(<<URL, "add">>, "POST", {<<"Content-Type", "application/json">>},
        <<"{", QUOTE, "a", QUOTE, ":", "1", "}">>),
    Req(<<URL, "add">>, "POST", {}, <<"[", "3", ",", "4", "]">>) }

\* the path segment after the origin
PathOf(request) == IF Len(request.url) >= 2 THEN request.url[2] ELSE ""

\* the ways a Durable Object is written
Targets == [style : {"function", "class"}, fallback : BOOLEAN]

\* methods.fetch that sends through stubFetch's decoding
FetchSettled_Transformed(d) == transformResponse(d.resp)

\* what stub.fetch(...args) of the native stub settles with, which
\* methods.fetch returns as it is
FetchSettled(d) ==
  IF d.rejected THEN Rejected(d.err) ELSE Out("response", JNull, d.resp, NoErr)

\* stub.fetch(request) through the proxy: methods.fetch = (...args) => stub.fetch(...args)
ProxyFetch(c, request) ==
  /\ calls[c].pc = "idle"
  /\ started < NumCalls
  /\ mode = "sequential" => \A d \in Callers : calls[d].pc = "idle"
  /\ started' = started + 1
  /\ calls' = [calls EXCEPT ![c] =
       [IdleCall EXCEPT !.pc = "inflight", !.prop = "fetch", !.direct = TRUE,
                        !.sends = 1, !.sent = request, !.ordinal = started + 1]]
  /\ UNCHANGED <<runtime, actor, incDone, mode, lost, lostInc>>
  /\ UNCHANGED restVars

\* the object answers the request
Fetched(c, d) ==
  /\ actor' = d.st
  /\ calls' = [calls EXCEPT ![c] =
       [Handled(@, d) EXCEPT !.pc = IF d.rejected THEN "rejected" ELSE "resolved",
                             !.out = FetchSettled(d),
                             !.resp = d.resp,
                             !.caught = d.err,
                             !.responses = @ + (IF d.rejected THEN 0 ELSE 1)]]

FetchResponds(c, pick) ==
  /\ calls[c].pc = "inflight"
  /\ calls[c].direct
  /\ Fetched(c, Fetch(calls[c].sent, actor, pick))
  /\ UNCHANGED <<runtime, started, incDone, mode, lost, lostInc>>
  /\ UNCHANGED restVars

\* the native stub.fetch rejects with err
FetchRejects(c, err) ==
  /\ calls[c].pc = "inflight"
  /\ calls[c].direct
  /\ calls' = [calls EXCEPT ![c] =
       [@ EXCEPT !.pc = "rejected", !.out = Rejected(err), !.caught = err]]
  /\ UNCHANGED <<runtime, actor, started, incDone, mode, lost, lostInc>>
  /\ UNCHANGED restVars

\* ------------------------------------------------------------------------
\* Identity resolution: the get of an extended namespace (getDurableGet)
\* ------------------------------------------------------------------------

\* lookups followed in one run
MaxLookups == 2

\* a namespace of the runtime, before extendEnv reaches it
NativeNamespace ==
  [ get |-> "native", extended |-> FALSE, wrapped |-> 0,
    idFromString |-> "native", idFromName |-> "native", newUniqueId |-> "native" ]

\* extendNamespace that puts wrappers on the id operations too
extendNamespace_WrapsAll(ns) ==
  IF ~ns.extended
  THEN [ns EXCEPT !.get = "extended", !.extended = TRUE, !.wrapped = @ + 1,
                  !.idFromString = "extended", !.idFromName = "extended",
                  !.newUniqueId = "extended"]
  ELSE ns

\* extendNamespace without the flag test: every call wraps get again
extendNamespace_Rewraps(ns) ==
  [ns EXCEPT !.get = "extended", !.extended = TRUE, !.wrapped = @ + 1]

\* extendNamespace(namespace): namespace.get = getDurableGet(namespace),
\* once (the extended flag on get)
extendNamespace(ns) ==
  IF ~ns.extended
  THEN [ns EXCEPT !.get = "extended", !.extended = TRUE, !.wrapped = @ + 1]
  ELSE ns

\* The entry points of the module that run extendEnv(env), which reaches the
\* namespace.

\* extendEnv(env) called by the Worker
ExtendEnv ==
  /\ namespace' = extendNamespace(namespace)
  /\ extendedBy' = extendedBy \cup {"extendEnv"}
  /\ UNCHANGED <<callVars, lookupVars, target, methods>>

\* withDurables(request, env), the router middleware
WithDurables ==
  /\ namespace' = extendNamespace(namespace)
  /\ extendedBy' = extendedBy \cup {"withDurables"}
  /\ UNCHANGED <<callVars, lookupVars, target, methods>>

\* the function createDurable returns is instantiated with (state, env)
CreateDurableInstance ==
  /\ namespace' = extendNamespace(namespace)
  /\ extendedBy' = extendedBy \cup {"createDurable"}
  /\ UNCHANGED <<callVars, lookupVars, target, methods>>

\* new DurableAPI(state, env), or a subclass of it
DurableAPIConstructor ==
  /\ namespace' = extendNamespace(namespace)
  /\ extendedBy' = extendedBy \cup {"DurableAPI"}
  /\ UNCHANGED <<callVars, lookupVars, target, methods>>

\* a DurableObjectId: made by idFromString, idFromName or newUniqueId
Id(kind, str, n) == [kind |-> kind, str |-> str, n |-> n]
NoId == Id("none", <<>>, 0)

\* the first argument of get: undefined, a string (one lexeme per
\* character), or a DurableObjectId
RawAbsent == [t |-> "undefined", s |-> <<>>, id |-> NoId]
RawString(s) == [t |-> "string", s |-> s, id |-> NoId]
RawObject(id) == [t |-> "object", s |-> <<>>, id |-> id]

Chars(ch, n) == [i \in 1..n |-> ch]
HexDigits == {"0", "1", "2", "3", "4", "5", "6", "7", "8", "9",
              "a", "b", "c", "d", "e", "f"}
IsHex(s) == \A i \in 1..Len(s) : s[i] \in HexDigits

RawIds ==
  { RawAbsent,
    RawString(<<>>),
    RawString(<<"r", "o", "o", "m">>),
    RawString(Chars("a", CanonicalIdLength)),
    RawString(Chars("z", CanonicalIdLength)),
    RawString(Chars("a", CanonicalIdLength - 1)),
    RawString(Chars("a", CanonicalIdLength + 1)),
    RawObject(Id("name", <<"r", "o", "o", "m">>, 0)) }

GetOptions == {"undefined", "weur"}

\* a native operation of the namespace, as a lookup invoked it
Op(op, arg) == [op |-> op, arg |-> arg]

\* the native operations: the id each returns; idFromString throws on a
\* string that is no id
NativeIdFromString(s) == Id("string", s, 0)
NativeIdFromName(s) == Id("name", s, 0)
NativeNewUniqueId(n) == Id("unique", <<>>, n + 1)

\* !id
Falsy(raw) == raw.t = "undefined" \/ (raw.t = "string" /\ raw.s = <<>>)

\* the id resolution of getDurableGet's closure: the id, the native
\* operations invoked, whether one of them threw
Resolved(id, ops, threw) == [id |-> id, ops |-> ops, threw |-> threw]

\* ResolveId that looks at the content too: only a hex string is parsed
ResolveId_HexOnly(raw, n) ==
  IF Falsy(raw)
  THEN Resolved(NativeNewUniqueId(n), <<Op("newUniqueId", <<>>)>>, FALSE)
  ELSE IF raw.t = "string"
  THEN IF Len(raw.s) = CanonicalIdLength /\ IsHex(raw.s)
       THEN Resolved(NativeIdFromString(raw.s), <<Op("idFromString", raw.s)>>, FALSE)
       ELSE Resolved(NativeIdFromName(raw.s), <<Op("idFromName", raw.s)>>, FALSE)
  ELSE Resolved(raw.id, <<>>, FALSE)

\* ResolveId that generates one unique id and hands it out again
ResolveId_SharedUnique(raw, n) ==
  IF Falsy(raw)
  THEN Resolved(NativeNewUniqueId(0), <<Op("newUniqueId", <<>>)>>, FALSE)
  ELSE IF raw.t = "string"
  THEN IF Len(raw.s) = CanonicalIdLength
       THEN Resolved(NativeIdFromString(raw.s), <<Op("idFromString", raw.s)>>,
                     ~IsHex(raw.s))
       ELSE Resolved(NativeIdFromName(raw.s), <<Op("idFromName", raw.s)>>, FALSE)
  ELSE Resolved(raw.id, <<>>, FALSE)

ResolveId(raw, n) ==
  IF Falsy(raw)
  THEN Resolved(NativeNewUniqueId(n), <<Op("newUniqueId", <<>>)>>, FALSE)
  ELSE IF raw.t = "string"
  THEN IF Len(raw.s) = CanonicalIdLength
       THEN Resolved(NativeIdFromString(raw.s), <<Op("idFromString", raw.s)>>,
                     ~IsHex(raw.s))
       ELSE Resolved(NativeIdFromName(raw.s), <<Op("idFromName", raw.s)>>, FALSE)
  ELSE Resolved(raw.id, <<>>, FALSE)

\* the lookup as recorded: get.call(namespace, id, options) follows the
\* resolution unless it threw
LookedUp(raw, options, r, layers) ==
  [ raw |-> raw, options |-> options, threw |-> r.threw,
    layers |-> layers,   \* the proxies between the caller and the native stub
    id |-> IF r.threw THEN NoId ELSE r.id,
    ops |-> IF r.threw THEN r.ops ELSE Append(r.ops, Op("get", <<>>)),
    nativeGet |-> IF r.threw THEN [id |-> NoId, options |-> "undefined"]
                  ELSE [id |-> r.id, options |-> options] ]

UsesNewUniqueId(r) == \E i \in 1..Len(r.ops) : r.ops[i].op = "newUniqueId"

Recorded(rec) ==
  /\ lookups' = Append(lookups, rec)
  /\ uniq' = IF UsesNewUniqueId(rec) THEN uniq + 1 ELSE uniq

RECURSIVE ResolveLayers(_, _, _), ThenInner(_, _, _)
\* the id resolutions of n nested getDurableGet closures, the outermost
\* first: each hands the id it resolved to the get it captured
ResolveLayers(n, raw, u) ==
  IF n = 0 THEN Resolved(raw.id, <<>>, FALSE)
  ELSE ThenInner(n, ResolveId(raw, u), u)

\* the resolution r of an outer closure followed by that of the get it wraps
ThenInner(n, r, u) ==
  IF r.threw THEN r
  ELSE LET rest == ResolveLayers(n - 1, RawObject(r.id),
                                 IF UsesNewUniqueId(r) THEN u + 1 ELSE u)
       IN Resolved(rest.id, r.ops \o rest.ops, rest.threw)

\* getDurable(namespace, raw, options): getDurableGet(namespace)(raw, options),
\* one more closure around whatever namespace.get is
GetDurable(raw, options) ==
  /\ Len(lookups) < MaxLookups
  /\ Recorded(LookedUp(raw, options, ResolveLayers(namespace.wrapped + 1, raw, uniq),
                       namespace.wrapped + 1))
  /\ UNCHANGED <<callVars, target, methods, namespace, extendedBy>>

\* one more stubFetch run around what reaches the native stub's fetch
Enveloped(w) == [request |-> w.request, loops |-> w.loops + 1]

RECURSIVE StubFetchVia(_, _)
\* obj.fetch(request) on a stub under that many proxies: the request that
\* reaches the native stub's fetch, and the stubFetch runs passed on the way.
\* Each proxy's get trap gives methods.fetch, which hands the request to the
\* stub it wraps; a callable of the proxy would send the request (which
\* JSON.stringify turns into {}) in an envelope of its own
StubFetchVia(layers, request) ==
  IF layers = 0 THEN [request |-> request, loops |-> 0]
  ELSE IF ProxyGet("fetch") = "remote"
  THEN Enveloped(StubFetchVia(layers - 1,
                              createRequest("fetch", <<JObj(<<>>, <<>>)>>)))
  ELSE StubFetchVia(layers - 1, request)

\* stub[prop](...content) on the stub the latest lookup returned, with w what
\* its sends come to: the outer proxy's callable runs stubFetch(obj, prop,
\* content), obj the stub it wraps
CallVia(c, prop, content) ==
  /\ MayStart(c)
  /\ lookups # <<>> /\ ~lookups[Len(lookups)].threw
  /\ ProxyGet(prop) = "remote"
  /\ started' = started + 1
  /\ calls' = [calls EXCEPT ![c] =
       LET w == StubFetchVia(lookups[Len(lookups)].layers - 1,
                             createRequest(prop, content))
       IN [RemoteCall(@, prop, content) EXCEPT
             !.layers = lookups[Len(lookups)].layers,
             !.wire = w.request, !.loops = 1 + w.loops]]
  /\ methods' = methods \cup {prop}
  /\ UNCHANGED <<runtime, actor, incDone, mode, lost, lostInc>>
  /\ UNCHANGED <<lookupVars, target, namespace, extendedBy>>

\* namespace.get(raw, options) on an extended namespace
Get(raw, options) ==
  /\ namespace.get = "extended"
  /\ Len(lookups) < MaxLookups
  /\ Recorded(LookedUp(raw, options, ResolveLayers(namespace.wrapped, raw, uniq),
                       namespace.wrapped))
  /\ UNCHANGED <<callVars, target, methods, namespace, extendedBy>>

Init ==
  /\ lookups = <<>>
  /\ uniq = 0
  /\ target = [style |-> "function", fallback |-> TRUE]
  /\ methods = {"fetch"}
  /\ namespace = extendNamespace(NativeNamespace)
  /\ extendedBy = {"extendEnv"}
  /\ runtime \in [ownProps : BOOLEAN]
  /\ actor = [counter |-> 0]
  /\ calls = [c \in Callers |-> IdleCall]
  /\ started = 0
  /\ incDone = 0
  /\ mode = "sequential"
  /\ lost = 0
  /\ lostInc = 0

Next ==
  \/ \E c \in Callers, inv \in Invocations : Invoke(c, inv[1], inv[2])
  \/ \E c \in Callers : \E pick \in Picks(calls[c].prop, calls[c].content) :
       TransportResponds(c, pick)
  \/ \E c \in Callers, err \in TransportErrors : TransportRejects(c, err)
  \/ \E c \in Callers, err \in TransportErrors :
       \E pick \in Picks(calls[c].prop, calls[c].content) : TransportLoses(c, err, pick)
  \/ \E c \in Callers : BackoffElapsed(c)
  \/ \E c \in Callers : Settle(c)

\* the call path: stub calls, the transport, the dispatcher
Spec == Init /\ [][Next]_vars

\* ------------------------------------------------------------------------
\* The claims
\* ------------------------------------------------------------------------

Transient(err) == RetryOnTest(ErrToString(err))
HasNoCallable(c) == calls[c].prop # "" /\ calls[c].prop \notin ApiMethods
MissingMethodEnvelope(prop) ==
  JObj(<< <<"status">>, <<"error">> >>, <<JNum(500), JStr(MissingMethodMessage(prop))>>)

\* C1 (as stated): a stub call of a member the target does not have as a
\* function never resolves with a value; it ends in a rejection.
C1_Original ==
  \A c \in Callers : HasNoCallable(c) => calls[c].pc # "resolved"

\* C1 (amended): a stub call of a member m the target does not have as a
\* function resolves, once a send reaches the dispatcher, with the decoded
\* error envelope {status: 500, error: "Durable Object does not contain method
\* m()"}; the method is not run and the answer is not retried (the call settles
\* on that send); such a call rejects only with an error of the transport.
C1_MissingMethodResolvesWithEnvelope ==
  \A c \in Callers : HasNoCallable(c) =>
    /\ calls[c].pc = "resolved" =>
         /\ calls[c].out.kind = "value"
         /\ calls[c].out.val = MissingMethodEnvelope(calls[c].prop)
         /\ \E i \in 1..Len(calls[c].out.val.items[2].s) :
              calls[c].out.val.items[2].s[i] = calls[c].prop
         /\ calls[c].sends = calls[c].retries + 1
    /\ calls[c].pc = "rejected" => calls[c].out.err \in TransportErrors
    /\ calls[c].ran = 0

C1_Witness ==
  \E c \in Callers :
    /\ calls[c].prop = "foo" /\ calls[c].pc = "resolved"
    /\ calls[c].out.val.items[1] = JNum(500)

\* C2 (as stated): one logical stub call issues at most 11 transport sends.
C2_Original ==
  \A c \in Callers : calls[c].sends <= maxRetries + 1

\* C2 (amended): one logical stub call issues at most 12 transport sends
\* (1 initial send plus at most 11 retries), however many transient failures
\* follow one another; shouldRetry answers false for every retries value above
\* maxRetries, whatever the error.
C2_AtMostTwelveSends ==
  /\ \A c \in Callers :
       /\ calls[c].sends <= maxRetries + 2
       /\ calls[c].pc # "idle" => calls[c].sends = calls[c].retries + 1
  /\ \A err \in TransportErrors, r \in (maxRetries + 1)..(SendCap + 1) :
       ~shouldRetry(err, r)

C2_Witness ==
  \E c \in Callers : calls[c].sends = maxRetries + 2 /\ calls[c].pc = "inflight"

\* C3: when a send rejects with an error no alternative of retryOn matches,
\* the call rejects with that very error at once, at whatever attempt: no
\* backoff timer is set, no delay is added and no further send is made.
C3_PermanentErrorRejectsAtOnce ==
  \A c \in Callers :
    (calls[c].caught # NoErr /\ ~Transient(calls[c].caught)) =>
      /\ calls[c].pc = "rejected"
      /\ calls[c].out = Rejected(calls[c].caught)
      /\ calls[c].timer = 0
      /\ Len(calls[c].delays) = calls[c].retries
      /\ calls[c].sends = calls[c].retries + 1

C3_Witness ==
  \E c \in Callers :
    /\ calls[c].pc = "rejected" /\ ~Transient(calls[c].out.err)
    /\ calls[c].retries = 3

\* C4: while the transport's rejections are transient and within the retry
\* limit the call does not reject: it is sent again after each of them, and
\* when a send then succeeds the call resolves with the decoded result of that
\* send (add(3, 4) gives 7 after any number of retries).
C4_RetriedCallResolves ==
  \A c \in Callers :
    /\ (calls[c].pc = "rejected" /\ Transient(calls[c].out.err)) =>
         calls[c].retries > maxRetries
    /\ calls[c].pc = "backoff" => Transient(calls[c].caught)
    /\ calls[c].pc = "resolved" =>
         /\ calls[c].out.kind # "rejected"
         /\ calls[c].sends = calls[c].retries + 1
         /\ Len(calls[c].delays) = calls[c].retries
         /\ calls[c].prop = "add" => calls[c].out.val = JNum(7)

C4_Witness ==
  \E c \in Callers :
    /\ calls[c].pc = "resolved" /\ calls[c].retries = maxRetries
    /\ calls[c].prop = "add" /\ calls[c].out.val = JNum(7)

RECURSIVE SumSeq(_)
SumSeq(q) == IF q = <<>> THEN 0 ELSE Head(q) + SumSeq(Tail(q))

\* 2^n * 10 for n = 0, 1, ...
ExpectedSchedule == <<10, 20, 40, 80, 160, 320, 640, 1280, 2560, 5120, 10240>>

Rank(call) ==
  CASE call.pc = "inflight" -> 2 * (maxRetries + 2 - call.sends) + 1
    [] call.pc = "backoff" -> 2 * (maxRetries + 2 - call.sends)
    [] OTHER -> 0

\* C6: a call whose sends all fail with a transient error terminates: every
\* step of a call in flight lowers Rank, which never falls below 0 (finitely
\* many attempts), and once retries exceed maxRetries
\* the call rejects, with the transport's error itself, after maxRetries + 2
\* sends.
C6_ExhaustedCallRejects ==
  /\ [](\A c \in Callers :
          /\ Rank(calls[c]) >= 0
          /\ calls[c].pc = "rejected" =>
               /\ calls[c].out = Rejected(calls[c].caught)
               /\ calls[c].caught \in TransportErrors
               /\ Transient(calls[c].caught) => calls[c].sends = maxRetries + 2)
  /\ [][\A c \in Callers :
          (calls[c].pc \in {"inflight", "backoff"} /\ calls'[c] # calls[c]) =>
            Rank(calls'[c]) < Rank(calls[c])]_vars

C6_Witness ==
  \E c \in Callers :
    /\ calls[c].pc = "rejected" /\ Transient(calls[c].out.err)
    /\ calls[c].sends = maxRetries + 2 /\ calls[c].ran = 0

\* C7 (as stated): when the method returns a Response, the caller receives a
\* response with the same status, body and headers, the X-Direct-Response
\* marker absent, and the body not decoded.
C7_PassthroughKeepsResponse ==
  \A c \in Callers :
    (calls[c].pc = "resolved" /\ calls[c].ret.isResponse) =>
      /\ calls[c].out.kind = "response"
      /\ calls[c].out.resp.status = calls[c].ret.resp.status
      /\ calls[c].out.resp.body = calls[c].ret.resp.body
      /\ calls[c].out.resp.headers = calls[c].ret.resp.headers
      /\ DirectHeader \notin calls[c].out.resp.headers

\* C8 (as stated): the method is invoked with the arguments passed to the
\* stub, in the same positions, and the call resolves to a value equal to the
\* method's return value, for every JSON value.
C8_JsonRoundTrip ==
  \A c \in Callers :
    (calls[c].pc = "resolved" /\ calls[c].prop \in {"add", "echoAny"}) =>
      /\ calls[c].got = calls[c].content
      /\ calls[c].out.kind = "value"
      /\ calls[c].out.val = calls[c].ret.val

\* C9 (as stated): the k-th of the increment() calls made one after another
\* returns k.
C9_Original ==
  \A c \in Callers :
    (calls[c].pc = "resolved" /\ calls[c].prop = "increment") =>
      calls[c].out.val = JNum(calls[c].k)

\* C9 (amended): the k-th increment() call to resolve, of calls made one
\* after another, returns k plus the number of increment() runs whose response
\* the transport lost before (each such send was retried, or rejected, after
\* the actor had applied it); with no such loss it returns k.  The layer keeps
\* no count of its own: the actor's counter is the number of runs.
C9_CounterCountsRuns ==
  /\ actor.counter = incDone + lostInc
  /\ \A c \in Callers :
       (calls[c].pc = "resolved" /\ calls[c].prop = "increment") =>
         /\ calls[c].out.kind = "value"
         /\ calls[c].out.val = JNum(calls[c].k + calls[c].lostAt)
         /\ calls[c].lostAt = 0 => calls[c].out.val = JNum(calls[c].k)

C9_Witness ==
  \E c \in Callers :
    /\ calls[c].pc = "resolved" /\ calls[c].prop = "increment"
    /\ calls[c].k = 2 /\ calls[c].lostAt = 1 /\ calls[c].out.val = JNum(3)

IsCanonicalLength(raw) == raw.t = "string" /\ Len(raw.s) = CanonicalIdLength

\* C10: a string of length exactly 64 is parsed with idFromString, whatever
\* its content, and neither idFromName nor newUniqueId is called on it.
C10_CanonicalLengthParsed ==
  \A i \in 1..Len(lookups) :
    IsCanonicalLength(lookups[i].raw) =>
      /\ lookups[i].ops[1] = Op("idFromString", lookups[i].raw.s)
      /\ \A j \in 1..Len(lookups[i].ops) :
           lookups[i].ops[j].op \notin {"idFromName", "newUniqueId"}

C10_Witness ==
  \E i \in 1..Len(lookups) :
    /\ IsCanonicalLength(lookups[i].raw) /\ ~IsHex(lookups[i].raw.s)
    /\ lookups[i].ops[1].op = "idFromString"

IsNameLength(raw) == raw.t = "string" /\ Len(raw.s) # CanonicalIdLength

\* C11 (as stated): a string of any length other than 64, length 0 included,
\* is treated as a name: its identity is derived with idFromName, so two
\* lookups of one name yield equal identities and lookups of two names yield
\* different ones.
C11_NamesDerived ==
  \A i \in 1..Len(lookups) :
    IsNameLength(lookups[i].raw) =>
      /\ lookups[i].ops[1] = Op("idFromName", lookups[i].raw.s)
      /\ \A j \in 1..Len(lookups) :
           IsNameLength(lookups[j].raw) =>
             (lookups[i].raw.s = lookups[j].raw.s <=> lookups[i].id = lookups[j].id)

\* C12: a lookup with no identifier takes a fresh identity from newUniqueId,
\* called exactly once in the lookup, so two such lookups yield distinct
\* identities; a lookup with an identity object hands that object to the
\* native get unchanged and invokes no id-derivation operation.
C12_UniqueOrPassedThrough ==
  \A i \in 1..Len(lookups) :
    /\ lookups[i].raw.t = "undefined" =>
         /\ lookups[i].ops = <<Op("newUniqueId", <<>>), Op("get", <<>>)>>
         /\ lookups[i].id.kind = "unique"
         /\ lookups[i].nativeGet.id = lookups[i].id
         /\ \A j \in 1..Len(lookups) :
              (j # i /\ lookups[j].raw.t = "undefined") => lookups[j].id # lookups[i].id
    /\ lookups[i].raw.t = "object" =>
         /\ lookups[i].ops = <<Op("get", <<>>)>>
         /\ lookups[i].id = lookups[i].raw.id
         /\ lookups[i].nativeGet = [id |-> lookups[i].raw.id, options |-> lookups[i].options]

C12_Witness ==
  /\ Len(lookups) >= 2
  /\ lookups[1].raw.t = "undefined" /\ lookups[2].raw.t = "undefined"
  /\ lookups[1].id # lookups[2].id

CannotHandleEnvelope ==
  JObj(<< <<"status">>, <<"error">> >>, <<JNum(500), JStr(CannotHandleMessage)>>)
IsNonRpcFetch(c) ==
  calls[c].pc = "resolved" /\ calls[c].direct /\ ~StartsWithURL(calls[c].sent.url)

\* C13: a request whose URL does not begin with https://durable/ never
\* reaches the RPC router or a method: the object's own request handler gets
\* that very request and its response is the answer; with no handler of its
\* own the answer is the status-500 'Durable Object cannot handle request'
\* error response.
C13_NonRpcForwarded ==
  \A c \in Callers :
    IsNonRpcFetch(c) =>
      /\ ~calls[c].routed
      /\ calls[c].got = <<>>
      /\ target.fallback =>
           /\ calls[c].gotReq = calls[c].sent
           /\ calls[c].resp = FallbackResponse
      /\ ~target.fallback =>
           /\ calls[c].resp.status = 500
           /\ JsonParse(calls[c].resp.body).ok
           /\ JsonParse(calls[c].resp.body).val = CannotHandleEnvelope

C13_Witness ==
  \E c \in Callers :
    /\ IsNonRpcFetch(c) /\ calls[c].sent.url[1] = "http://durable/"
    /\ target.fallback /\ calls[c].gotReq = calls[c].sent
    /\ calls[c].resp = FallbackResponse

\* C14: stub.fetch(request) on the proxy is the native stub's fetch: the
\* request goes out as given, once, with no backoff whatever the error, and
\* the caller gets the object's response as it is (marker header and body
\* untouched) or the transport's rejection.
C14_ProxyFetchIsNativeFetch ==
  \A c \in Callers :
    calls[c].direct =>
      /\ calls[c].sent \in DirectRequests
      /\ calls[c].sends = 1 /\ calls[c].retries = 0
      /\ calls[c].timer = 0 /\ calls[c].delays = <<>>
      /\ calls[c].pc \in {"inflight", "resolved", "rejected"}
      /\ calls[c].pc = "resolved" =>
           calls[c].out = Out("response", JNull, calls[c].resp, NoErr)
      /\ calls[c].pc = "rejected" =>
           calls[c].out = Rejected(calls[c].caught)

C14_Witness ==
  \E c \in Callers :
    /\ calls[c].direct /\ calls[c].pc = "resolved"
    /\ calls[c].sent = createRequest("raw", <<>>)
    /\ DirectHeader \in calls[c].out.resp.headers
    /\ calls[c].out.resp.status = 404

ErrorEnvelope(err) ==
  JObj(<< <<"status">>, <<"error">> >>, <<JNum(ErrorStatus(err)), JStr(err.message)>>)

\* C15 (as stated): every error thrown while an RPC request is dispatched
\* (no such method, arguments that cannot be spread, the method throwing)
\* becomes the JSON error response {status, error} with the error's status
\* (500 when it has none) and message; the object's fetch never rejects for a
\* request to https://durable/.
C15_ThrownBecomesEnvelope ==
  \A c \in Callers :
    (calls[c].direct /\ calls[c].routed) =>
      /\ calls[c].pc # "rejected"
      /\ calls[c].thrown # NoErr =>
           /\ calls[c].resp.status = ErrorStatus(calls[c].thrown)
           /\ JsonParse(calls[c].resp.body).ok
           /\ JsonParse(calls[c].resp.body).val = ErrorEnvelope(calls[c].thrown)

\* C16: the client retries only when obj.fetch rejects: a send that is
\* answered, with a result, a passthrough response or an error descriptor,
\* resolves the call at once, even when the descriptor's message holds a
\* phrase of retryOn; a call that backs off or rejects has had no response,
\* and a resolved call sends nothing more.
C16_RetriesOnlyOnRejection ==
  /\ [](\A c \in Callers :
          ~calls[c].direct =>
            /\ calls[c].responses <= 1
            /\ calls[c].responses = 1 <=> calls[c].pc = "resolved"
            /\ calls[c].pc \in {"backoff", "rejected"} => calls[c].caught # NoErr)
  /\ [][\A c \in Callers :
          (calls[c].pc = "resolved" /\ calls'[c] # calls[c]) => calls'[c] = IdleCall]_vars

C16_Witness ==
  \E c \in Callers :
    /\ calls[c].pc = "resolved" /\ calls[c].prop = "fail" /\ calls[c].sends = 1
    /\ Transient(calls[c].thrown)
    /\ calls[c].out.val = ErrorEnvelope(calls[c].thrown)

IsNativeMember(prop) == prop \in NativeStubMembers
IsEnvelope(request, prop, content) ==
  /\ request.url = <<"https://durable/", prop>>
  /\ request.method = "POST"
  /\ <<"Content-Type", "application/json">> \in request.headers
  /\ JsonParse(request.body).ok
  /\ JsonParse(request.body).val = JArr(content)

\* C17 (as stated): every member name other than the native stub's own
\* members, toString and the other inherited names included, yields a
\* callable whose call sends POST https://durable/m with a JSON content type
\* and the JSON array of the arguments as body.
C17_Original ==
  \A c \in Callers :
    (calls[c].pc # "idle" /\ ~calls[c].direct /\ ~IsNativeMember(calls[c].prop)) =>
      /\ calls[c].sends >= 1
      /\ IsEnvelope(calls[c].sent, calls[c].prop, calls[c].content)

\* C17 (amended): every member name that is neither a member of the native
\* stub nor a name inherited from Object.prototype yields a callable whose
\* call sends that envelope, on the first send and on every retry; for an
\* inherited name the proxy returns the inherited function, and calling it
\* sends nothing.
C17_RemoteMembersSendEnvelope ==
  \A c \in Callers :
    (calls[c].pc # "idle" /\ ~calls[c].direct /\ ~IsNativeMember(calls[c].prop)) =>
      /\ calls[c].prop \notin ObjectPrototypeNames =>
           /\ calls[c].sends >= 1
           /\ IsEnvelope(calls[c].sent, calls[c].prop, calls[c].content)
           /\ calls[c].prop \in methods
      /\ calls[c].prop \in ObjectPrototypeNames =>
           /\ calls[c].sends = 0 /\ calls[c].sent = NoReq
           /\ calls[c].out.kind = "local"
           /\ calls[c].prop \notin methods

C17_Witness ==
  \E c \in Callers :
    /\ calls[c].prop = "foo" /\ calls[c].pc = "inflight" /\ calls[c].retries = 1
    /\ calls[c].sent.url = <<"https://durable/", "foo">>
    /\ calls[c].sent.body = <<"[", QUOTE, "x", QUOTE, ",", "null", "]">>

IdOperationsNative(ns) ==
  ns.idFromString = "native" /\ ns.idFromName = "native" /\ ns.newUniqueId = "native"

\* C18: extending a namespace replaces its get and nothing else: idFromString,
\* idFromName and newUniqueId stay the native operations and give the ids
\* they gave before; every lookup that resolves an id ends in the native get,
\* called with that id and the caller's options; an id object reaches it as
\* it is.
C18_OnlyGetIsReplaced ==
  /\ [](/\ IdOperationsNative(namespace)
        /\ \A i \in 1..Len(lookups) :
             /\ namespace.get = "extended"
             /\ ~lookups[i].threw =>
                  /\ lookups[i].ops[Len(lookups[i].ops)] = Op("get", <<>>)
                  /\ lookups[i].nativeGet = [id |-> lookups[i].id, options |-> lookups[i].options]
             /\ (IsNameLength(lookups[i].raw) /\ ~Falsy(lookups[i].raw)) =>
                  lookups[i].id = NativeIdFromName(lookups[i].raw.s)
             /\ (IsCanonicalLength(lookups[i].raw) /\ ~lookups[i].threw) =>
                  lookups[i].id = NativeIdFromString(lookups[i].raw.s)
             /\ lookups[i].raw.t = "object" => lookups[i].nativeGet.id = lookups[i].raw.id)
  /\ [][/\ namespace'.idFromString = namespace.idFromString
        /\ namespace'.idFromName = namespace.idFromName
        /\ namespace'.newUniqueId = namespace.newUniqueId]_vars

C18_Witness ==
  /\ namespace.get = "extended" /\ IdOperationsNative(namespace)
  /\ \E i \in 1..Len(lookups) :
       /\ lookups[i].raw.t = "object" /\ lookups[i].options = "weur"
       /\ lookups[i].nativeGet = [id |-> lookups[i].raw.id, options |-> "weur"]

MethodRan(c) == calls[c].direct /\ calls[c].routed /\ calls[c].ran > 0

\* C19: an RPC request that names 'fetch' has the object's request handler
\* called with the incoming request itself as its one argument, the decoded
\* arguments not spread; a request that names any other method has it called
\* with the decoded argument array, spread in order.
C19_FetchGetsTheRequest ==
  \A c \in Callers :
    MethodRan(c) =>
      /\ PathOf(calls[c].sent) = "fetch" =>
           /\ calls[c].gotReq = calls[c].sent
           /\ calls[c].got = <<>>
      /\ PathOf(calls[c].sent) # "fetch" =>
           /\ calls[c].gotReq = NoReq
           /\ JsonParse(calls[c].sent.body).ok
           /\ JArr(calls[c].got) = JsonParse(calls[c].sent.body).val

C19_Witness ==
  \E c \in Callers :
    /\ MethodRan(c) /\ calls[c].pc = "resolved"
    /\ calls[c].sent = createRequest("fetch", <<JNum(1)>>)
    /\ calls[c].gotReq = calls[c].sent
    /\ DirectHeader \in calls[c].resp.headers

\* C20: overlapping calls are independent: every step changes the record
\* (attempt count, timer, delays, outcome) of one call only; each call counts
\* its own attempts and follows its own backoff schedule whatever the other
\* call does, and rejects only on an error of its own sends.
C20_CallsAreIndependent ==
  /\ [](\A c \in Callers :
          /\ calls[c].pc # "idle" => calls[c].sends = calls[c].retries + 1
          /\ calls[c].delays = SubSeq(ExpectedSchedule, 1, calls[c].retries)
          /\ calls[c].pc = "backoff" => calls[c].timer = Delay(calls[c].retries)
          /\ calls[c].pc = "rejected" =>
               (Transient(calls[c].caught) => calls[c].sends = maxRetries + 2))
  /\ [][\A c, d \in Callers :
          (c # d /\ calls'[c] # calls[c]) => calls'[d] = calls[d]]_vars

\* the call started first waits in its third backoff; the call started after
\* it has resolved after a single send
C20_Witness ==
  \E c, d \in Callers :
    /\ c # d /\ calls[c].ordinal = 1 /\ calls[d].ordinal = 2
    /\ calls[c].pc = "backoff" /\ calls[c].retries = 2 /\ calls[c].timer = 40
    /\ calls[d].pc = "resolved" /\ calls[d].sends = 1 /\ calls[d].retries = 0
    /\ calls[d].out.val = JNum(7)

IsAnswered(c) == calls[c].pc = "resolved" /\ ~calls[c].direct
HasMarker(resp) == DirectHeader \in resp.headers

\* C21 (as stated): the response of the dispatcher carries the
\* X-Direct-Response marker exactly when the method returned a Response;
\* encoded results and error envelopes never carry it; the caller gets a
\* response object only for a passthrough result or an unreadable body, and a
\* decoded value otherwise.
C21_MarkerIffResponseReturned ==
  \A c \in Callers :
    IsAnswered(c) =>
      /\ HasMarker(calls[c].resp) <=> calls[c].ret.isResponse
      /\ calls[c].thrown # NoErr => ~HasMarker(calls[c].resp)
      /\ calls[c].out.kind = "response" <=>
           (calls[c].ret.isResponse \/ ~calls[c].resp.readable)
      /\ calls[c].out.kind # "response" => calls[c].out.kind = "value"

IsUnmarked(c) ==
  ~calls[c].direct /\ calls[c].responses = 1 /\ ~HasMarker(calls[c].resp)

\* C22: decoding a response without the marker never rejects and never
\* retries: the call resolves on that send, with the parsed value when the
\* body parses as JSON, with the body's text when it does not, and with the
\* response object itself when the body cannot be read.
C22_DecodingNeverRejects ==
  /\ [](\A c \in Callers :
          IsUnmarked(c) =>
            /\ calls[c].pc = "resolved"
            /\ calls[c].sends = calls[c].retries + 1
            /\ calls[c].timer = 0
            /\ ~calls[c].resp.readable =>
                 calls[c].out = Out("response", JNull, calls[c].resp, NoErr)
            /\ (calls[c].resp.readable /\ JsonParse(calls[c].resp.body).ok) =>
                 calls[c].out =
                   Out("value", JsonParse(calls[c].resp.body).val, NoResp, NoErr)
            /\ (calls[c].resp.readable /\ ~JsonParse(calls[c].resp.body).ok) =>
                 calls[c].out = Out("value", JStr(calls[c].resp.body), NoResp, NoErr))
  /\ [][\A c \in Callers :
          (IsUnmarked(c) /\ calls'[c] # calls[c]) => calls'[c] = IdleCall]_vars

C22_Witness ==
  \E c \in Callers :
    /\ IsUnmarked(c) /\ ~calls[c].resp.readable /\ calls[c].retries = 1
    /\ calls[c].prop = "echoAny" /\ calls[c].ret.val = JStr(<<"abc">>)
    /\ calls[c].out.kind = "response" /\ calls[c].out.resp = calls[c].resp

ObjectSettled(c) == calls[c].routed /\ calls[c].pc \in {"resolved", "rejected"}

\* C23 (as stated): every request to https://durable/ that reaches the
\* object is answered by its fetch with a response (an encoded result, a
\* passthrough response or a JSON error envelope), whatever its HTTP method
\* and path: the caller's fetch is fulfilled, never rejected by the object.
C23_EveryRpcRequestAnswered ==
  \A c \in Callers :
    ObjectSettled(c) =>
      /\ calls[c].pc = "resolved"
      /\ calls[c].responses = 1
      /\ ValidStatus(calls[c].resp.status)
      /\ \/ HasMarker(calls[c].resp)
         \/ calls[c].resp.body = RawBody(calls[c].ret.val)
         \/ JsonParse(calls[c].resp.body).ok

\* C24 (as stated): one logical stub call has the target method invoked on
\* the actor at most once, whatever transient failures and retries occur.
C24_Original ==
  \A c \in Callers : calls[c].ran <= 1

\* C24 (amended): one logical stub call has the target method invoked once
\* per send that reaches the actor: at least once when the call resolves, once
\* more for every send the actor ran and the transport then failed, and never
\* more often than the call has sends (at most 12); every run gets the call's
\* arguments, and a method that has run is run again only after a transient
\* error.  The actor's counter counts every run, answered or lost.
C24_MethodRunsPerDeliveredSend ==
  /\ actor.counter = incDone + lostInc
  /\ \A c \in Callers :
       /\ calls[c].ran <= calls[c].sends
       /\ calls[c].sends <= maxRetries + 2
       /\ (calls[c].pc = "resolved" /\ calls[c].prop \in ApiMethods) =>
            (calls[c].ran >= 1 /\ calls[c].ran <= lost + 1)
       /\ calls[c].pc # "resolved" => calls[c].ran <= lost
       /\ (calls[c].ran >= 1 /\ calls[c].pc \in {"inflight", "backoff"}) =>
            Transient(calls[c].caught)
       /\ (calls[c].ran >= 1 /\ calls[c].prop \in {"add", "echoAny"}) =>
            calls[c].got = calls[c].content

C24_Witness ==
  \E c \in Callers :
    /\ calls[c].pc = "resolved" /\ calls[c].prop = "increment"
    /\ calls[c].ran = 3 /\ calls[c].sends = 3 /\ calls[c].k = 1
    /\ calls[c].out.val = JNum(3) /\ actor.counter = 3

EntryPoints == {"extendEnv", "withDurables", "createDurable", "DurableAPI"}
Derivations(rec) == { j \in 1..Len(rec.ops) : rec.ops[j].op # "get" }
NativeGets(rec) == { j \in 1..Len(rec.ops) : rec.ops[j].op = "get" }
AbsentLookups == { i \in 1..Len(lookups) : lookups[i].raw.t = "undefined" }

\* C25: extension is idempotent.  Whatever entry points run extendEnv on the
\* env, and however often, the namespace's get is wrapped once and stays as it
\* is from then on; a lookup through it, or through getDurable on the extended
\* namespace (one closure more), derives the identity once and calls the
\* native get once with it; a stub call made on the stub it returns hands the
\* native stub the one envelope of the call, under one retry loop with its
\* own schedule.
C25_ExtensionIsIdempotent ==
  /\ [](/\ namespace.wrapped <= 1
        /\ extendedBy \subseteq EntryPoints
        /\ extendedBy = {} => namespace = NativeNamespace
        /\ extendedBy # {} => namespace = extendNamespace(NativeNamespace)
        /\ uniq = Cardinality(AbsentLookups)
        /\ \A i \in 1..Len(lookups) :
             /\ lookups[i].layers \in {1, 2}
             /\ Cardinality(Derivations(lookups[i])) <= 1
             /\ NativeGets(lookups[i]) = {Len(lookups[i].ops)}
             /\ lookups[i].nativeGet.id = lookups[i].id
             /\ lookups[i].raw.t = "string" =>
                  /\ lookups[i].ops = <<Op("idFromName", lookups[i].raw.s), Op("get", <<>>)>>
                  /\ lookups[i].id = NativeIdFromName(lookups[i].raw.s)
             /\ lookups[i].raw.t = "undefined" =>
                  /\ lookups[i].ops = <<Op("newUniqueId", <<>>), Op("get", <<>>)>>
                  /\ lookups[i].id.kind = "unique"
        /\ \A c \in Callers :
             calls[c].layers > 0 =>
               /\ calls[c].wire = createRequest(calls[c].prop, calls[c].content)
               /\ calls[c].sent = calls[c].wire
               /\ calls[c].loops = 1
               /\ calls[c].sends = calls[c].retries + 1
               /\ calls[c].sends <= maxRetries + 2
               /\ calls[c].delays = SubSeq(ExpectedSchedule, 1, calls[c].retries)
               /\ calls[c].responses <= 1)
  /\ [][namespace.wrapped = 1 => namespace' = namespace]_vars

C25_Witness ==
  /\ extendedBy = EntryPoints
  /\ namespace.wrapped = 1
  /\ Len(lookups) = 2
  /\ lookups[1].layers = 1 /\ lookups[2].layers = 2
  /\ lookups[1].id = lookups[2].id /\ lookups[2].id.kind = "name"
  /\ \E c \in Callers :
       /\ calls[c].layers = 2 /\ calls[c].pc = "resolved" /\ calls[c].retries = 1
       /\ calls[c].sends = 2 /\ calls[c].out.val = JNum(7)

\* a Durable Object of either style, with or without a handler of its own
InitFetch ==
  /\ lookups = <<>>
  /\ uniq = 0
  /\ target \in Targets
  /\ methods = {"fetch"}
  /\ namespace = extendNamespace(NativeNamespace)
  /\ extendedBy = {"extendEnv"}
  /\ runtime \in [ownProps : BOOLEAN]
  /\ actor = [counter |-> 0]
  /\ calls = [c \in Callers |-> IdleCall]
  /\ started = 0
  /\ incDone = 0
  /\ mode = "sequential"
  /\ lost = 0
  /\ lostInc = 0

NextFetch ==
  \/ \E c \in Callers, request \in DirectRequests : ProxyFetch(c, request)
  \/ \E c \in Callers : \E pick \in Picks(PathOf(calls[c].sent), <<>>) :
       FetchResponds(c, pick)
  \/ \E c \in Callers, err \in TransportErrors : FetchRejects(c, err)
  \/ \E c \in Callers : Settle(c)

\* requests sent with stub.fetch, and the object's fetch that answers them
SpecFetch == InitFetch /\ [][NextFetch]_vars

\* the member calls made on the proxy: methods of the object, names it does
\* not have, names every object inherits, members of the native stub
ProxyCalls ==
  { <<"add", <<JNum(3), JNum(4)>> >>,
    <<"increment", <<>> >>,
    <<"foo", <<JStr(<<"x">>), JNull>> >>,
    <<"then", <<>> >>,
    <<"toString", <<>> >>,
    <<"valueOf", <<>> >>,
    <<"constructor", <<JNum(1)>> >>,
    <<"hasOwnProperty", <<JStr(<<"a">>)>> >>,
    <<"id", <<>> >> }

NextProxy ==
  \/ \E c \in Callers, inv \in ProxyCalls : Call(c, inv[1], inv[2])
  \/ \E c \in Callers : \E pick \in Picks(calls[c].prop, calls[c].content) :
       TransportResponds(c, pick)
  \/ \E c \in Callers, err \in TransportErrors : TransportRejects(c, err)
  \/ \E c \in Callers : BackoffElapsed(c)
  \/ \E c \in Callers : Settle(c)

\* member access on the stub proxy and the calls it starts
SpecProxy == Init /\ [][NextProxy]_vars

\* callers that do not await one another
InitConcurrent ==
  /\ lookups = <<>>
  /\ uniq = 0
  /\ target = [style |-> "function", fallback |-> TRUE]
  /\ methods = {"fetch"}
  /\ namespace = extendNamespace(NativeNamespace)
  /\ extendedBy = {"extendEnv"}
  /\ runtime \in [ownProps : BOOLEAN]
  /\ actor = [counter |-> 0]
  /\ calls = [c \in Callers |-> IdleCall]
  /\ started = 0
  /\ incDone = 0
  /\ mode = "concurrent"
  /\ lost = 0
  /\ lostInc = 0

\* the calls made at the same time
ConcurrentInvocations == { <<"add", <<JNum(3), JNum(4)>> >>, <<"increment", <<>> >> }

NextConcurrent ==
  \/ \E c \in Callers, inv \in ConcurrentInvocations : Invoke(c, inv[1], inv[2])
  \/ \E c \in Callers : \E pick \in Picks(calls[c].prop, calls[c].content) :
       TransportResponds(c, pick)
  \/ \E c \in Callers, err \in TransportErrors : TransportRejects(c, err)
  \/ \E c \in Callers : BackoffElapsed(c)
  \/ \E c \in Callers : Settle(c)

\* overlapping stub calls
SpecConcurrent == InitConcurrent /\ [][NextConcurrent]_vars

\* stub calls of methods that throw, of a missing method, and of methods
\* that return
ThrowingInvocations ==
  { <<"fail", <<>> >>, <<"foo", <<>> >>, <<"raw", <<>> >>,
    <<"add", <<JNum(3), JNum(4)>> >> }

NextThrow ==
  \/ \E c \in Callers, inv \in ThrowingInvocations : Invoke(c, inv[1], inv[2])
  \/ \E c \in Callers : \E pick \in Picks(calls[c].prop, calls[c].content) :
       TransportResponds(c, pick)
  \/ \E c \in Callers, err \in TransportErrors : TransportRejects(c, err)
  \/ \E c \in Callers, err \in TransportErrors :
       \E pick \in Picks(calls[c].prop, calls[c].content) : TransportLoses(c, err, pick)
  \/ \E c \in Callers : BackoffElapsed(c)
  \/ \E c \in Callers : Settle(c)

\* the call path when methods throw
SpecThrow == Init /\ [][NextThrow]_vars

\* stub calls whose answers are results of every kind, passthrough
\* responses and error envelopes
DecodeInvocations ==
  { <<"echoAny", TestValues>>, <<"raw", <<>> >>, <<"fail", <<>> >>,
    <<"foo", <<>> >>, <<"add", <<JNum(3), JNum(4)>> >> }

NextDecode ==
  \/ \E c \in Callers, inv \in DecodeInvocations : Invoke(c, inv[1], inv[2])
  \/ \E c \in Callers : \E pick \in Picks(calls[c].prop, calls[c].content) :
       TransportResponds(c, pick)
  \/ \E c \in Callers : \E pick \in Picks(calls[c].prop, calls[c].content) :
       TransportRespondsBroken(c, pick)
  \/ \E c \in Callers, err \in TransportErrors : TransportRejects(c, err)
  \/ \E c \in Callers : BackoffElapsed(c)
  \/ \E c \in Callers : Settle(c)

\* the answers of the dispatcher and their decoding by the client
SpecDecode == Init /\ [][NextDecode]_vars

\* requests to https://durable/ of every shape, sent with stub.fetch: the
\* envelope of a method, of a missing method and of fetch, a GET and a PUT, an
\* empty path, a path of two segments (NextRoute has stub[''](), stub['a/b']()
\* and stub.add(3, 4) called as well)
RouteRequests ==
  { createRequest("add", <<JNum(3), JNum(4)>>),
    createRequest("raw", <<>>),
    createRequest("foo", <<>>),
    createRequest("fetch", <<>>),
    createRequest_Get("add", <<>>),
    Req(<<URL, "add">>, "PUT", {<<"Content-Type", "application/json">>},
        <<"[", "3", ",", "4", "]">>),
    createRequest("", <<>>),
    createRequest("a/b", <<>>) }

NextRoute ==
  \/ \E c \in Callers, request \in RouteRequests : ProxyFetch(c, request)
  \/ \E c \in Callers :
       \E inv \in { <<"", <<>> >>, <<"a/b", <<JNum(1)>> >>,
                    <<"add", <<JNum(3), JNum(4)>> >> } : Invoke(c, inv[1], inv[2])
  \/ \E c \in Callers : \E pick \in Picks(PathOf(calls[c].sent), <<>>) :
       FetchResponds(c, pick)
  \/ \E c \in Callers : \E pick \in Picks(calls[c].prop, calls[c].content) :
       TransportResponds(c, pick)
  \/ \E c \in Callers, err \in TransportErrors : FetchRejects(c, err)
  \/ \E c \in Callers, err \in TransportErrors : TransportRejects(c, err)
  \/ \E c \in Callers : BackoffElapsed(c)
  \/ \E c \in Callers : Settle(c)

\* requests to https://durable/ and the router that takes them
SpecRoute == InitFetch /\ [][NextRoute]_vars

\* a namespace extendEnv has not reached yet
InitLookup ==
  /\ lookups = <<>>
  /\ uniq = 0
  /\ target = [style |-> "function", fallback |-> TRUE]
  /\ methods = {"fetch"}
  /\ namespace = NativeNamespace
  /\ extendedBy = {}
  /\ runtime \in [ownProps : BOOLEAN]
  /\ actor = [counter |-> 0]
  /\ calls = [c \in Callers |-> IdleCall]
  /\ started = 0
  /\ incDone = 0
  /\ mode = "sequential"
  /\ lost = 0
  /\ lostInc = 0

NextLookup ==
  \/ ExtendEnv
  \/ \E raw \in RawIds, options \in GetOptions : Get(raw, options)

\* identity resolution
SpecLookup == InitLookup /\ [][NextLookup]_vars

\* the identifiers of the lookups made while the env is extended again and
\* again
ExtendRawIds == { RawAbsent, RawString(<<"r", "o", "o", "m">>) }

\* an env no entry point has extended yet; add() returns no Response, so
\* the runtime's layout of Response plays no part
InitExtend ==
  /\ lookups = <<>>
  /\ uniq = 0
  /\ target = [style |-> "function", fallback |-> TRUE]
  /\ methods = {"fetch"}
  /\ namespace = NativeNamespace
  /\ extendedBy = {}
  /\ runtime = [ownProps |-> FALSE]
  /\ actor = [counter |-> 0]
  /\ calls = [c \in Callers |-> IdleCall]
  /\ started = 0
  /\ incDone = 0
  /\ mode = "sequential"
  /\ lost = 0
  /\ lostInc = 0

NextExtend ==
  \/ ExtendEnv
  \/ WithDurables
  \/ CreateDurableInstance
  \/ DurableAPIConstructor
  \/ \E raw \in ExtendRawIds : Get(raw, "undefined")
  \/ \E raw \in ExtendRawIds : GetDurable(raw, "undefined")
  \/ \E c \in Callers : CallVia(c, "add", <<JNum(3), JNum(4)>>)
  \/ \E c \in Callers : \E pick \in Picks(calls[c].prop, calls[c].content) :
       TransportResponds(c, pick)
  \/ \E c \in Callers :
       TransportRejects(c, Err("Error", <<"Network connection lost", ".">>, 0))
  \/ \E c \in Callers : BackoffElapsed(c)
  \/ \E c \in Callers : Settle(c)

\* extension of the env by every entry point, lookups and calls after it
SpecExtend == InitExtend /\ [][NextExtend]_vars
====
